---- MODULE Spec2Model ----
(***************************************************************************)
(* A model of the agol-open-data-toolbox batch scripts.                    *)
(*                                                                         *)
(*   OneTimePublish.py   the publish pipeline over SGID.META.AGOLItems     *)
(*   NightStocker.py     the shelved/static publish loop over a CSV list   *)
(*   UpdateTitles.py     the title synchronisation loop                    *)
(*   main.py             the stewardship endpoint linker                   *)
(*   Folders.py          the category folder check                         *)
(*                                                                         *)
(* Every script is a sequential batch job.  The vendor calls (arcpy, the   *)
(* ArcGIS API, pygsheets) are external: each one either returns or raises, *)
(* and the model lets either happen wherever the code calls them.  Each    *)
(* script has its own specification (SpecOTP, SpecNS, SpecUT, SpecSL,      *)
(* SpecFD) and log_gsheets has one of its own (SpecLG); the variables of   *)
(* the other scripts stay at their initial value.                          *)
(***************************************************************************)
EXTENDS Integers, Sequences, FiniteSets, TLC

(* ---------------------------------------------------------------------- *)
(* Bounds of the model                                                     *)
(* ---------------------------------------------------------------------- *)

\* rows of SGID.META.AGOLItems; row t stands for the t-th TABLENAME in
\* ascending order (TABLENAME is taken to be the key of the table)
NumTables == 2

\* how many times the operator starts OneTimePublish.py
MaxRuns == 2

\* how many cloud items (service definitions and feature layers) may exist
MaxItems == 4

\* rows of the NightStocker worklist CSV (after its header)
NumEntries == 2

\* rows of the stewardship sheet (after its header) before the first run
NumSheetRows == 2

\* how many times the operator starts NightStocker.py
MaxNSRuns == 2

\* how many cloud items NightStocker may create
MaxNSItems == 4

\* how many times log_gsheets is called on one pair of sheets
MaxCalls == 2

\* rows of SGID.META.AGOLItems that UpdateTitles.py reads
NumTitleRows == 2

\* how many times the operator starts UpdateTitles.py
MaxTitleRuns == 2

\* rows of META.AGOLITEMS that the endpoint linker reads
NumLinkRows == 2

\* rows of the stewardship worksheet (after its header) that the linker reads
NumLinkSheetRows == 2

\* rows of SGID.META.AGOLItems that Folders.py reads
NumFolderRows == 2

\* cloud items that Folders.py may meet
NumFolderItems == 2

(* ---------------------------------------------------------------------- *)
(* Values                                                                  *)
(* ---------------------------------------------------------------------- *)

\* AGOL_ITEM_ID IS NULL
NULL == 0

\* AGOL_ITEM_ID = 'EXTERNAL'
EXTERNAL == -1

\* max_publishes
max_publishes == 10

Tables == 1..NumTables

ItemIds == 1..MaxItems

DatasetTypes == {"FeatureClass", "Table", "Missing"}

VARIABLES
  \* ---- OneTimePublish.py ----
  tracking,            \* AGOL_ITEM_ID of every row of SGID.META.AGOLItems
  datasetType,         \* what arcpy.da.Describe finds for every TABLENAME
  cloud,               \* the items of the cloud platform, by item id
  fgdb,                \* tables already projected into the category fgdbs
  mapLayers,           \* layers saved in the category maps of the project
  pc,                  \* where the script is
  worklist,            \* rows the SearchCursor has still to yield
  cur,                 \* the row of the current iteration (0: none)
  total_publishes,
  missing_thumbnails,
  published_items,
  source_item,         \* id of the uploaded service definition (0: none)
  item,                \* id of the published feature layer (0: none)
  steps,               \* the pipeline steps finished for the current item
  written,             \* rows whose AGOL_ITEM_ID this script has written
  runs,                \* runs started so far
  \* ---- NightStocker.py ----
  ns_csv,              \* the rows of the worklist CSV: [fc, method]
  ns_isTable,          \* whether Describe says the feature class is a table
  ns_pc,               \* where the script is
  test,                \* layers[0:10]
  ns_idx,              \* position of entry in test
  log_entry,           \* the variable log_entry (<<>>: not yet bound)
  ns_exc,              \* the exception in flight when the finally clause runs
  item_id,             \* what upload_layer returned
  csv_log,             \* the rows of the CSV log file
  steward,             \* the rows of the stewardship worksheet
  agol_sheet,          \* the rows of the AGOL items worksheet
  ns_cloud,            \* the cloud items NightStocker created
  updated_rows,
  ns_runs,
  \* ---- log_gsheets called on its own ----
  action_info,         \* the argument of the last call
  updated_row,         \* what the last call returned ("raised": it raised)
  lg_calls,            \* calls made so far
  \* ---- UpdateTitles.py ----
  ut_rows,             \* AGOL_ITEM_ID and AGOL_PUBLISHED_NAME of every row
  ut_title,            \* the title of the cloud item of every row
  ut_pc,
  ut_cursor,           \* rows the SearchCursor has still to yield
  errors,
  ut_updates,          \* item.update calls made by the current run
  ut_prev_clean,       \* the run before this one ended with no error
  ut_runs,
  \* ---- stewardship-endpoint-linker/main.py ----
  sl_tracking,         \* the rows of META.AGOLITEMS
  sl_sheet,            \* the rows of the worksheet 'SGID Stewardship Info'
  sl_sheet0,           \* the worksheet before the script ran
  sl_pc,
  sl_cursor,           \* rows the database cursor has still to yield
  table_map,
  data_frame,
  sl_index,            \* position of iterrows
  sl_view,             \* whether the rows iterrows yields are views of the frame
  \* ---- Folders.py ----
  fd_rows,             \* TABLENAME and AGOL_ITEM_ID of every row
  fd_user_folders,     \* the titles of the user's folders
  fd_in,               \* the folder every cloud item is in (<<>>: the root)
  fd_related,          \* the 'Service2Data' related items of every item
  fd_pc,
  fd_cursor,           \* rows the SearchCursor has still to yield
  fd_row,              \* the row of the current iteration (0: none)
  fd_queue,            \* items move_item_if_needed has still to be called on
  folders,             \* what get_folders_to_items returned
  fd_moves,            \* the item.move calls made: <<item id, folder>>
  fd_reports           \* the items an error message was printed for

otpVars == <<tracking, datasetType, cloud, fgdb, mapLayers, pc, worklist, cur,
             total_publishes, missing_thumbnails, published_items, source_item,
             item, steps, written, runs>>

nsVars == <<ns_csv, ns_isTable, ns_pc, test, ns_idx, log_entry, ns_exc, item_id,
            csv_log, steward, agol_sheet, ns_cloud, updated_rows, ns_runs>>

lgVars == <<action_info, updated_row, lg_calls>>

utVars == <<ut_rows, ut_title, ut_pc, ut_cursor, errors, ut_updates, ut_prev_clean,
            ut_runs>>

slVars == <<sl_tracking, sl_sheet, sl_sheet0, sl_pc, sl_cursor, table_map, data_frame,
            sl_index, sl_view>>

fdVars == <<fd_rows, fd_user_folders, fd_in, fd_related, fd_pc, fd_cursor, fd_row,
            fd_queue, folders, fd_moves, fd_reports>>

vars == <<otpVars, nsVars, lgVars, utVars, slVars, fdVars>>

\* what OneTimePublish.py leaves alone
notOTP == <<nsVars, lgVars, utVars, slVars, fdVars>>

\* what NightStocker.py leaves alone
notNS == <<otpVars, lgVars, utVars, slVars, fdVars>>

\* what UpdateTitles.py leaves alone
notUT == <<otpVars, nsVars, lgVars, slVars, fdVars>>

\* what the endpoint linker leaves alone
notSL == <<otpVars, nsVars, lgVars, utVars, fdVars>>

\* what Folders.py leaves alone
notFD == <<otpVars, nsVars, lgVars, utVars, slVars>>

(* ---------------------------------------------------------------------- *)
(* OneTimePublish.py                                                       *)
(* ---------------------------------------------------------------------- *)

\* the elements of a sequence
Range(f) == {f[i] : i \in DOMAIN f}

\* how many times x occurs in the sequence q
Count(q, x) == Cardinality({i \in DOMAIN q : q[i] = x})

RECURSIVE OrderBy(_)
\* the elements of a set of rows in ascending TABLENAME order
OrderBy(S) ==
  IF S = {} THEN <<>>
  ELSE LET m == CHOOSE x \in S : \A y \in S : x <= y
       IN  <<m>> \o OrderBy(S \ {m})

\* mutant: the WHERE clause dropped from the worklist query
WorklistAll(tr) == OrderBy(Tables)

\* the SearchCursor: rows with AGOL_ITEM_ID IS NULL, ORDER BY TABLENAME
Worklist(tr) == OrderBy({t \in Tables : tr[t] = NULL})

\* a new cloud item
NewItem(kind, t) ==
  [kind |-> kind, table |-> t, protected |-> FALSE, updated |-> FALSE,
   shared |-> FALSE, thumbs |-> <<>>, capabilities |-> "default"]

NextId == Cardinality(DOMAIN cloud) + 1

\* the feature layers that exist in the cloud for row t
LayersOf(t) == {i \in DOMAIN cloud : cloud[i].kind = "fl" /\ cloud[i].table = t}

\* mutant: one edit session for the whole run, so that an exception discards
\* the ids this run has written
AbortDiscardsEdits ==
  /\ pc' = "aborted"
  /\ tracking' = [t \in Tables |->
                    IF \E k \in DOMAIN published_items : published_items[k] = <<t, tracking[t]>>
                    THEN NULL ELSE tracking[t]]
  /\ UNCHANGED <<notOTP, datasetType, fgdb, mapLayers, worklist, cur,
                 total_publishes, missing_thumbnails, published_items,
                 source_item, item, steps, written, runs>>

\* an exception that nothing catches ends the process
Abort ==
  /\ pc' = "aborted"
  /\ UNCHANGED <<notOTP, tracking, datasetType, fgdb, mapLayers, worklist, cur,
                 total_publishes, missing_thumbnails, published_items,
                 source_item, item, steps, written, runs>>

\* the operator starts the script: module initialisation, cleanup(), the query
StartRun ==
  /\ pc \in {"idle", "done", "aborted"}
  /\ runs < MaxRuns
  /\ runs' = runs + 1
  /\ worklist' = Worklist(tracking)
  /\ total_publishes' = 0
  /\ missing_thumbnails' = <<>>
  /\ published_items' = <<>>
  /\ cur' = 0
  /\ source_item' = 0
  /\ item' = 0
  /\ steps' = <<>>
  /\ pc' = "cursor"
  /\ UNCHANGED <<notOTP, tracking, datasetType, cloud, fgdb, mapLayers, written>>

\* the cursor is exhausted, or max_publishes is reached: the loop ends
CursorEnd ==
  /\ pc = "cursor"
  /\ worklist = <<>> \/ total_publishes >= max_publishes
  /\ pc' = "done"
  /\ UNCHANGED <<notOTP, tracking, datasetType, cloud, fgdb, mapLayers, worklist, cur,
                 total_publishes, missing_thumbnails, published_items,
                 source_item, item, steps, written, runs>>

\* Describe raises, or the dataset is a table: continue
SkipRow ==
  /\ pc = "cursor"
  /\ worklist # <<>>
  /\ total_publishes < max_publishes
  /\ datasetType[Head(worklist)] \in {"Missing", "Table"}
  /\ worklist' = Tail(worklist)
  /\ UNCHANGED <<notOTP, tracking, datasetType, cloud, fgdb, mapLayers, pc, cur,
                 total_publishes, missing_thumbnails, published_items,
                 source_item, item, steps, written, runs>>

\* a feature class: its pipeline starts
BeginItem ==
  /\ pc = "cursor"
  /\ worklist # <<>>
  /\ total_publishes < max_publishes
  /\ datasetType[Head(worklist)] = "FeatureClass"
  /\ cur' = Head(worklist)
  /\ worklist' = Tail(worklist)
  /\ source_item' = 0
  /\ item' = 0
  /\ steps' = <<>>
  /\ pc' = "import_data"
  /\ UNCHANGED <<notOTP, tracking, datasetType, cloud, fgdb, mapLayers,
                 total_publishes, missing_thumbnails, published_items,
                 written, runs>>

\* import_data: project into the fgdb unless the output exists already
ImportData ==
  /\ pc = "import_data"
  /\ fgdb' = fgdb \cup {cur}
  /\ steps' = Append(steps, "import_data")
  /\ pc' = "add_data_to_map"
  /\ UNCHANGED <<notOTP, tracking, datasetType, cloud, mapLayers, worklist, cur,
                 total_publishes, missing_thumbnails, published_items,
                 source_item, item, written, runs>>

\* CreateFileGDB or Project raises
ImportDataFail ==
  /\ pc = "import_data"
  /\ cur \notin fgdb
  /\ cloud' = cloud
  /\ Abort

\* maps[category], then add_data_to_map: add the layer unless it is there
AddDataToMap ==
  /\ pc = "add_data_to_map"
  /\ mapLayers' = mapLayers \cup {cur}
  /\ steps' = Append(steps, "add_data_to_map")
  /\ pc' = "stage"
  /\ UNCHANGED <<notOTP, tracking, datasetType, cloud, fgdb, worklist, cur,
                 total_publishes, missing_thumbnails, published_items,
                 source_item, item, written, runs>>

\* no map for the category (raise), or addDataFromPath/addLayer/save raises
AddDataToMapFail ==
  /\ pc = "add_data_to_map"
  /\ cloud' = cloud
  /\ Abort

\* getWebLayerSharingDraft, exportToSDDraft, StageService
Stage ==
  /\ pc = "stage"
  /\ steps' = Append(steps, "stage")
  /\ pc' = "upload"
  /\ UNCHANGED <<notOTP, tracking, datasetType, cloud, fgdb, mapLayers, worklist, cur,
                 total_publishes, missing_thumbnails, published_items,
                 source_item, item, written, runs>>

StageFail ==
  /\ pc = "stage"
  /\ cloud' = cloud
  /\ Abort

\* gis.content.add, source_item.protect
Upload ==
  /\ pc = "upload"
  /\ NextId \in ItemIds
  /\ cloud' = cloud @@ (NextId :> [NewItem("sd", cur) EXCEPT !.protected = TRUE])
  /\ source_item' = NextId
  /\ steps' = Append(steps, "upload")
  /\ pc' = "publish"
  /\ UNCHANGED <<notOTP, tracking, datasetType, fgdb, mapLayers, worklist, cur,
                 total_publishes, missing_thumbnails, published_items,
                 item, written, runs>>

\* content.add raises (nothing is added), or protect raises (the item stays)
UploadFail ==
  /\ pc = "upload"
  /\ \/ cloud' = cloud
     \/ /\ NextId \in ItemIds
        /\ cloud' = cloud @@ (NextId :> NewItem("sd", cur))
  /\ Abort

\* mutant: the id of the service definition item returned instead
PublishedIdSource(src, it) == src

\* the id publish_to_agol returns: item.id

PublishedId(src, it) == it

\* source_item.publish, item.protect, published_items.append
Publish ==
  /\ pc = "publish"
  /\ NextId \in ItemIds
  /\ cloud' = cloud @@ (NextId :> [NewItem("fl", cur) EXCEPT !.protected = TRUE])
  /\ item' = NextId
  /\ published_items' = Append(published_items, <<cur, NextId>>)
  /\ steps' = Append(steps, "publish")
  /\ pc' = "update"
  /\ UNCHANGED <<notOTP, tracking, datasetType, fgdb, mapLayers, worklist, cur,
                 total_publishes, missing_thumbnails, source_item,
                 written, runs>>

\* publish raises (no layer), or protect raises (the layer stays)
PublishFail ==
  /\ pc = "publish"
  /\ \/ cloud' = cloud
     \/ /\ NextId \in ItemIds
        /\ cloud' = cloud @@ (NextId :> NewItem("fl", cur))
  /\ Abort

\* metadata_lookup, item.update(metadata) returns true
ItemUpdate ==
  /\ pc = "update"
  /\ cloud' = [cloud EXCEPT ![item].updated = TRUE]
  /\ steps' = Append(steps, "update")
  /\ pc' = "group"
  /\ UNCHANGED <<notOTP, tracking, datasetType, fgdb, mapLayers, worklist, cur,
                 total_publishes, missing_thumbnails, published_items,
                 source_item, item, written, runs>>

\* no metadata for the layer, item.update raises, or it returns false: raise
ItemUpdateFail ==
  /\ pc = "update"
  /\ cloud' = cloud
  /\ Abort

\* gis.groups.search(...)[0]
GroupLookup ==
  /\ pc = "group"
  /\ steps' = Append(steps, "group")
  /\ pc' = "share"
  /\ UNCHANGED <<notOTP, tracking, datasetType, cloud, fgdb, mapLayers, worklist, cur,
                 total_publishes, missing_thumbnails, published_items,
                 source_item, item, written, runs>>

\* the search raises or finds no group (IndexError)
GroupLookupFail ==
  /\ pc = "group"
  /\ cloud' = cloud
  /\ Abort

\* mutant: sharing is followed by the capabilities update, with no thumbnail
ShareSkipsThumbnail ==
  /\ pc = "share"
  /\ cloud' = [cloud EXCEPT ![item].shared = TRUE]
  /\ steps' = Append(steps, "share")
  /\ pc' = "capabilities"
  /\ UNCHANGED <<notOTP, tracking, datasetType, fgdb, mapLayers, worklist, cur,
                 total_publishes, missing_thumbnails, published_items,
                 source_item, item, written, runs>>

\* item.share(everyone=True, groups=[group.id])
Share ==
  /\ pc = "share"
  /\ cloud' = [cloud EXCEPT ![item].shared = TRUE]
  /\ steps' = Append(steps, "share")
  /\ pc' = "thumbnail"
  /\ UNCHANGED <<notOTP, tracking, datasetType, fgdb, mapLayers, worklist, cur,
                 total_publishes, missing_thumbnails, published_items,
                 source_item, item, written, runs>>

ShareFail ==
  /\ pc = "share"
  /\ cloud' = cloud
  /\ Abort

\* the outcome of one create_thumbnail call, recorded on the item
ThumbCall(outcome) == [cloud EXCEPT ![item].thumbs = Append(@, outcome)]

\* item.create_thumbnail() returns
Thumbnail ==
  /\ pc = "thumbnail"
  /\ cloud' = ThumbCall("ok")
  /\ steps' = Append(steps, "thumbnail")
  /\ pc' = "capabilities"
  /\ UNCHANGED <<notOTP, tracking, datasetType, fgdb, mapLayers, worklist, cur,
                 total_publishes, missing_thumbnails, published_items,
                 source_item, item, written, runs>>

\* item.create_thumbnail() raises: print, retry
ThumbnailRaise ==
  /\ pc = "thumbnail"
  /\ cloud' = ThumbCall("raised")
  /\ pc' = "retry_thumbnail"
  /\ UNCHANGED <<notOTP, tracking, datasetType, fgdb, mapLayers, worklist, cur,
                 total_publishes, missing_thumbnails, published_items,
                 source_item, item, steps, written, runs>>

\* the second item.create_thumbnail() returns
RetryThumbnail ==
  /\ pc = "retry_thumbnail"
  /\ cloud' = ThumbCall("ok")
  /\ steps' = Append(steps, "thumbnail")
  /\ pc' = "capabilities"
  /\ UNCHANGED <<notOTP, tracking, datasetType, fgdb, mapLayers, worklist, cur,
                 total_publishes, missing_thumbnails, published_items,
                 source_item, item, written, runs>>

\* mutant: the failed retry is retried again and nothing is recorded
RetryThumbnailRaiseAgain ==
  /\ pc = "retry_thumbnail"
  /\ cloud' = ThumbCall("raised")
  /\ Len(cloud[item].thumbs) < 3
  /\ UNCHANGED <<notOTP, tracking, datasetType, fgdb, mapLayers, worklist, cur, pc,
                 total_publishes, missing_thumbnails, published_items,
                 source_item, item, steps, written, runs>>

\* the second item.create_thumbnail() raises: missing_thumbnails.append
RetryThumbnailRaise ==
  /\ pc = "retry_thumbnail"
  /\ cloud' = ThumbCall("raised")
  /\ missing_thumbnails' = Append(missing_thumbnails, item)
  /\ steps' = Append(steps, "thumbnail")
  /\ pc' = "capabilities"
  /\ UNCHANGED <<notOTP, tracking, datasetType, fgdb, mapLayers, worklist, cur,
                 total_publishes, published_items, source_item, item,
                 written, runs>>

\* FeatureLayerCollection.fromitem(item).manager.update_definition
Capabilities ==
  /\ pc = "capabilities"
  /\ cloud' = [cloud EXCEPT ![item].capabilities = "Query,Extract"]
  /\ steps' = Append(steps, "capabilities")
  /\ pc' = "write_back"
  /\ UNCHANGED <<notOTP, tracking, datasetType, fgdb, mapLayers, worklist, cur,
                 total_publishes, missing_thumbnails, published_items,
                 source_item, item, written, runs>>

CapabilitiesFail ==
  /\ pc = "capabilities"
  /\ cloud' = cloud
  /\ Abort

\* mutant: the UpdateCursor opened without its where clause
UpdateRowsAll(tr, t, id) == [r \in Tables |-> id]

\* the UpdateCursor over TABLENAME = table: updateRow((published_id,))
UpdateRows(tr, t, id) == [r \in Tables |-> IF r = t THEN id ELSE tr[r]]

\* share_layer.visible = False, the edit session, total_publishes + 1
WriteBack ==
  /\ pc = "write_back"
  /\ tracking' = UpdateRows(tracking, cur, PublishedId(source_item, item))
  /\ written' = written \cup {cur}
  /\ total_publishes' = total_publishes + 1
  /\ steps' = Append(steps, "write_back")
  /\ pc' = "cursor"
  /\ UNCHANGED <<notOTP, datasetType, cloud, fgdb, mapLayers, worklist, cur,
                 missing_thumbnails, published_items, source_item, item, runs>>

\* the Editor or the UpdateCursor raises: the edit session is abandoned
WriteBackFail ==
  /\ pc = "write_back"
  /\ cloud' = cloud
  /\ Abort

InitOTP ==
  /\ tracking \in [Tables -> {NULL, EXTERNAL}]
  /\ datasetType \in [Tables -> DatasetTypes]
  /\ cloud = <<>>
  /\ fgdb = {}
  /\ mapLayers = {}
  /\ pc = "idle"
  /\ worklist = <<>>
  /\ cur = 0
  /\ total_publishes = 0
  /\ missing_thumbnails = <<>>
  /\ published_items = <<>>
  /\ source_item = 0
  /\ item = 0
  /\ steps = <<>>
  /\ written = {}
  /\ runs = 0

\* OneTimePublish.py not started
IdleOTP ==
  /\ tracking = [t \in Tables |-> NULL]
  /\ datasetType = [t \in Tables |-> "FeatureClass"]
  /\ cloud = <<>>
  /\ fgdb = {}
  /\ mapLayers = {}
  /\ pc = "idle"
  /\ worklist = <<>>
  /\ cur = 0
  /\ total_publishes = 0
  /\ missing_thumbnails = <<>>
  /\ published_items = <<>>
  /\ source_item = 0
  /\ item = 0
  /\ steps = <<>>
  /\ written = {}
  /\ runs = 0

NextOTP ==
  \/ StartRun \/ CursorEnd \/ SkipRow \/ BeginItem
  \/ ImportData \/ ImportDataFail
  \/ AddDataToMap \/ AddDataToMapFail
  \/ Stage \/ StageFail
  \/ Upload \/ UploadFail
  \/ Publish \/ PublishFail
  \/ ItemUpdate \/ ItemUpdateFail
  \/ GroupLookup \/ GroupLookupFail
  \/ Share \/ ShareFail
  \/ Thumbnail \/ ThumbnailRaise \/ RetryThumbnail \/ RetryThumbnailRaise
  \/ Capabilities \/ CapabilitiesFail
  \/ WriteBack \/ WriteBackFail


(* ---------------------------------------------------------------------- *)
(* NightStocker.py                                                         *)
(* ---------------------------------------------------------------------- *)

\* Python column n of a sheet row, list element n of a log entry
Col(n) == n + 1

\* row[3] of the worklist CSV
Methods == {"shelved", "static", "removed", "other"}

\* entry[0], the fully qualified feature class name of CSV row i
FcName(i) == "SGID.CAT.FC" \o ToString(i)

\* entry[1], the title of CSV row i
EntryTitle(i) == "Title " \o ToString(i)

\* entry[0].partition('.')[2]
DataLayer(i) == "CAT.FC" \o ToString(i)

\* 'https://opendata.gis.utah.gov/datasets/' + entry[1].replace(' ', '-').lower()
Endpoint(i) == "https://opendata.gis.utah.gov/datasets/title-" \o ToString(i)

\* published_item.itemid of the n-th cloud item
ItemIdOf(n) == "item" \o ToString(n)

ItemUrl(id) == "https://utah.maps.arcgis.com/home/item.html/?id=" \o id

\* Python's None
None == "None"

\* the unbound variable log_entry
Unbound == <<>>

\* layers: the CSV rows that are not 'removed', then test = layers[0:10]
RECURSIVE NotRemoved(_)
NotRemoved(rows) ==
  IF rows = <<>> THEN <<>>
  ELSE IF Head(rows).method # "removed"
       THEN <<Head(rows)>> \o NotRemoved(Tail(rows))
       ELSE NotRemoved(Tail(rows))

FirstTen(q) == SubSeq(q, 1, IF Len(q) < 10 THEN Len(q) ELSE 10)

\* the entry of the current iteration
entry == test[ns_idx]

\* log_entry of a table, of an ExecuteError, of a published layer
TableEntry(e) == <<EntryTitle(e.fc), "Table: not uploaded">>

ErrorEntry(e) == <<EntryTitle(e.fc), "arcpy messages">>

FullEntry(e, id) ==
  <<EntryTitle(e.fc), e.method, DataLayer(e.fc), "description", "credits", "polygon",
    Endpoint(e.fc), id>>

\* a stewardship row before the script touches it
SheetRow(layer) ==
  <<"", "SGID", layer, "30", "", "", "", "about", "source", "", "", "polygon", "", "",
    "", "", "", "", "", "", "", "", "", "note", "">>

HeaderRow ==
  <<"Issue", "Authoritative Access From", "SGID Data Layer", "Refresh Cycle (Days)",
    "Last Update", "Days From Last Refresh", "Days to Refresh", "Description",
    "Data Source", "Use Restrictions", "Website URL", "Data Type", "PEL Layer",
    "PEL Status", "Governance/Agreement", "PEL Inclusion", "Agency Contact Name",
    "Agency Contact Email", "SGID Coordination", "Archival Schedule", "Endpoint",
    "Tier", "Webapp", "Notes", "Deprecated">>

\* mutant: the endpoint written one column to the right
RewriteRowShifted(row, a) ==
  [row EXCEPT ![Col(1)] = "AGRC AGOL",
              ![Col(21)] = a[Col(6)],
              ![Col(23)] = "AGOL category: " \o a[Col(1)] \o " - " \o row[Col(23)]]

\* temp_row: a matching stewardship row rewritten
RewriteRow(row, a) ==
  [row EXCEPT ![Col(1)] = "AGRC AGOL",
              ![Col(20)] = a[Col(6)],
              ![Col(23)] = "AGOL category: " \o a[Col(1)] \o " - " \o row[Col(23)]]

\* the rows whose column 2 equals action_info[2]
Matching(rows, a) == {i \in DOMAIN rows : rows[i][Col(2)] = a[Col(2)]}

\* new_row
NewRow(a) ==
  <<"", "AGRC AGOL", a[Col(2)], "Static", "", "", "", a[Col(3)], a[Col(4)], "", "",
    a[Col(5)], "", "", "", "", "", "", "", "", a[Col(6)], "", "",
    "Added by NightStocker - AGOL category: " \o a[Col(1)], "">>

\* the stewardship sheet after log_gsheets: update_values row by row, or
\* insert_rows after the last row
StewardshipAfter(rows, a) ==
  IF Matching(rows, a) # {}
  THEN [i \in DOMAIN rows |-> IF i \in Matching(rows, a) THEN RewriteRow(rows[i], a) ELSE rows[i]]
  ELSE Append(rows, NewRow(a))

\* updated_row: rownum of the last matching row, None without one
UpdatedRow(rows, a) ==
  IF Matching(rows, a) # {}
  THEN ToString(CHOOSE i \in Matching(rows, a) : \A j \in Matching(rows, a) : j <= i)
  ELSE None

\* the row appended to the AGOL items sheet
AgolRow(a) == <<a[Col(0)], a[Col(7)], ItemUrl(a[Col(7)])>>

\* an uncaught exception ends the process
NSAbort == ns_pc' = "aborted"

\* the script starts: read the CSV, log and updated_rows empty
NSStart ==
  /\ ns_pc \in {"idle", "done", "aborted"}
  /\ ns_runs < MaxNSRuns
  /\ ns_runs' = ns_runs + 1
  /\ test' = FirstTen(NotRemoved(ns_csv))
  /\ ns_idx' = 1
  /\ log_entry' = Unbound
  /\ ns_exc' = "none"
  /\ item_id' = None
  /\ updated_rows' = <<>>
  /\ ns_pc' = "loop"
  /\ UNCHANGED <<notNS, ns_csv, ns_isTable, csv_log, steward, agol_sheet, ns_cloud>>

\* the for loop is over
NSLoopEnd ==
  /\ ns_pc = "loop"
  /\ ns_idx > Len(test)
  /\ ns_pc' = "done"
  /\ UNCHANGED <<notNS, ns_csv, ns_isTable, test, ns_idx, log_entry, ns_exc, item_id,
                 csv_log, steward, agol_sheet, ns_cloud, updated_rows, ns_runs>>

\* arcpy.da.Describe raises, outside the try statement
NSDescribeFail ==
  /\ ns_pc = "loop"
  /\ ns_idx <= Len(test)
  /\ NSAbort
  /\ UNCHANGED <<notNS, ns_csv, ns_isTable, test, ns_idx, log_entry, ns_exc, item_id,
                 csv_log, steward, agol_sheet, ns_cloud, updated_rows, ns_runs>>

\* a table: log_entry is bound and the loop continues through the finally clause
NSTable ==
  /\ ns_pc = "loop"
  /\ ns_idx <= Len(test)
  /\ ns_isTable[entry.fc]
  /\ log_entry' = TableEntry(entry)
  /\ ns_exc' = "none"
  /\ ns_pc' = "finally"
  /\ UNCHANGED <<notNS, ns_csv, ns_isTable, test, ns_idx, item_id,
                 csv_log, steward, agol_sheet, ns_cloud, updated_rows, ns_runs>>

\* a feature class: on to create_service_definition
NSBeginLayer ==
  /\ ns_pc = "loop"
  /\ ns_idx <= Len(test)
  /\ ~ns_isTable[entry.fc]
  /\ ns_exc' = "none"
  /\ ns_pc' = "create_service_definition"
  /\ UNCHANGED <<notNS, ns_csv, ns_isTable, test, ns_idx, log_entry, item_id,
                 csv_log, steward, agol_sheet, ns_cloud, updated_rows, ns_runs>>

\* create_service_definition returns sd_path
NSStage ==
  /\ ns_pc = "create_service_definition"
  /\ ns_pc' = "get_info"
  /\ UNCHANGED <<notNS, ns_csv, ns_isTable, test, ns_idx, log_entry, ns_exc, item_id,
                 csv_log, steward, agol_sheet, ns_cloud, updated_rows, ns_runs>>

\* the places where create_service_definition can fail with ExecuteError
StagePoints == {"project_data", "addDataFromPath", "exportToSDDraft", "StageService"}

\* whether the local variable layer is bound when the finally clause of
\* create_service_definition reads it
LayerBound(point) == point \in {"exportToSDDraft", "StageService"}

\* the exception that leaves create_service_definition: the ExecuteError, or the
\* UnboundLocalError its finally clause raises on reading layer
StageException(point) == IF LayerBound(point) THEN "ExecuteError" ELSE "Other"

\* the main loop's except clause: an ExecuteError is caught and log_entry bound
Caught(exc, e) ==
  /\ ns_exc' = (IF exc = "ExecuteError" THEN "none" ELSE exc)
  /\ log_entry' = (IF exc = "ExecuteError" THEN ErrorEntry(e) ELSE log_entry)
  /\ ns_pc' = "finally"

\* create_service_definition fails
NSStageFail ==
  /\ ns_pc = "create_service_definition"
  /\ \E point \in StagePoints : Caught(StageException(point), entry)
  /\ UNCHANGED <<notNS, ns_csv, ns_isTable, test, ns_idx, item_id,
                 csv_log, steward, agol_sheet, ns_cloud, updated_rows, ns_runs>>

\* get_info returns item_info
NSGetInfo ==
  /\ ns_pc = "get_info"
  /\ entry.method \in {"shelved", "static"}
  /\ ns_pc' = "upload_layer"
  /\ UNCHANGED <<notNS, ns_csv, ns_isTable, test, ns_idx, log_entry, ns_exc, item_id,
                 csv_log, steward, agol_sheet, ns_cloud, updated_rows, ns_runs>>

\* get_info raises KeyError (no metadata) or ValueError (unknown category)
NSGetInfoFail ==
  /\ ns_pc = "get_info"
  /\ Caught("Other", entry)
  /\ UNCHANGED <<notNS, ns_csv, ns_isTable, test, ns_idx, item_id,
                 csv_log, steward, agol_sheet, ns_cloud, updated_rows, ns_runs>>

NSNewItem(kind, fc) == [kind |-> kind, fc |-> fc]

\* upload_layer: content.add, publish, share, update, move, update_definition
NSUpload ==
  /\ ns_pc = "upload_layer"
  /\ Len(ns_cloud) + 2 <= MaxNSItems
  /\ ns_cloud' = ns_cloud \o <<NSNewItem("sd", entry.fc), NSNewItem("fl", entry.fc)>>
  /\ item_id' = ItemIdOf(Len(ns_cloud) + 2)
  /\ ns_pc' = "log_gsheets"
  /\ UNCHANGED <<notNS, ns_csv, ns_isTable, test, ns_idx, log_entry, ns_exc,
                 csv_log, steward, agol_sheet, updated_rows, ns_runs>>

\* upload_layer raises: at content.add, at publish, or after publish
NSUploadFail ==
  /\ ns_pc = "upload_layer"
  /\ \/ ns_cloud' = ns_cloud
     \/ /\ Len(ns_cloud) + 1 <= MaxNSItems
        /\ ns_cloud' = Append(ns_cloud, NSNewItem("sd", entry.fc))
     \/ /\ Len(ns_cloud) + 2 <= MaxNSItems
        /\ ns_cloud' = ns_cloud \o <<NSNewItem("sd", entry.fc), NSNewItem("fl", entry.fc)>>
  /\ Caught("Other", entry)
  /\ UNCHANGED <<notNS, ns_csv, ns_isTable, test, ns_idx, item_id,
                 csv_log, steward, agol_sheet, updated_rows, ns_runs>>

\* log_entry is bound, log_gsheets returns
NSLogGsheets ==
  /\ ns_pc = "log_gsheets"
  /\ log_entry' = FullEntry(entry, item_id)
  /\ steward' = StewardshipAfter(steward, log_entry')
  /\ agol_sheet' = Append(agol_sheet, AgolRow(log_entry'))
  /\ updated_rows' = updated_rows @@ (FcName(entry.fc) :> UpdatedRow(steward, log_entry'))
  /\ ns_pc' = "finally"
  /\ UNCHANGED <<notNS, ns_csv, ns_isTable, test, ns_idx, ns_exc, item_id,
                 csv_log, ns_cloud, ns_runs>>

\* log_entry is bound, log_gsheets raises: before it wrote anything, or with the
\* stewardship sheet written and the AGOL items sheet not
NSLogGsheetsFail ==
  /\ ns_pc = "log_gsheets"
  /\ log_entry' = FullEntry(entry, item_id)
  /\ \/ steward' = steward
     \/ steward' = StewardshipAfter(steward, log_entry')
  /\ ns_exc' = "Other"
  /\ ns_pc' = "finally"
  /\ UNCHANGED <<notNS, ns_csv, ns_isTable, test, ns_idx, item_id,
                 csv_log, agol_sheet, ns_cloud, updated_rows, ns_runs>>

\* after the finally clause: the exception in flight goes on, or the next entry
AfterFinally ==
  /\ ns_pc' = (IF ns_exc = "none" THEN "loop" ELSE "aborted")
  /\ ns_idx' = (IF ns_exc = "none" THEN ns_idx + 1 ELSE ns_idx)

\* mutant: the finally clause logs nothing for a table
NSFinallySkipTable ==
  /\ ns_pc = "finally"
  /\ log_entry # Unbound
  /\ csv_log' = (IF Len(log_entry) = 2 THEN csv_log ELSE Append(csv_log, log_entry))
  /\ AfterFinally
  /\ UNCHANGED <<notNS, ns_csv, ns_isTable, test, log_entry, ns_exc, item_id,
                 steward, agol_sheet, ns_cloud, updated_rows, ns_runs>>

\* finally: log_csv(log_entry, log_path) writes the row
NSFinally ==
  /\ ns_pc = "finally"
  /\ log_entry # Unbound
  /\ csv_log' = Append(csv_log, log_entry)
  /\ AfterFinally
  /\ UNCHANGED <<notNS, ns_csv, ns_isTable, test, log_entry, ns_exc, item_id,
                 steward, agol_sheet, ns_cloud, updated_rows, ns_runs>>

\* finally: log_csv cannot open the log file: IOError, printed and dropped
NSFinallyIOError ==
  /\ ns_pc = "finally"
  /\ log_entry # Unbound
  /\ AfterFinally
  /\ UNCHANGED <<notNS, ns_csv, ns_isTable, test, log_entry, ns_exc, item_id,
                 csv_log, steward, agol_sheet, ns_cloud, updated_rows, ns_runs>>

\* finally: log_entry was never bound: NameError
NSFinallyUnbound ==
  /\ ns_pc = "finally"
  /\ log_entry = Unbound
  /\ NSAbort
  /\ UNCHANGED <<notNS, ns_csv, ns_isTable, test, ns_idx, log_entry, ns_exc, item_id,
                 csv_log, steward, agol_sheet, ns_cloud, updated_rows, ns_runs>>

\* the CSV rows of the model: the method of a row, and whether Describe finds
\* a table
EntryKinds == {<<"shelved", FALSE>>, <<"static", FALSE>>, <<"static", TRUE>>,
               <<"removed", FALSE>>, <<"other", FALSE>>}

\* the layers a stewardship row may name before the first run
SheetLayers == {DataLayer(1), "CAT.Other"}

InitNS ==
  /\ ns_csv \in [1..NumEntries -> [fc : 1..NumEntries, method : Methods]]
  /\ \A i \in 1..NumEntries : ns_csv[i].fc = i
  /\ ns_isTable \in [1..NumEntries -> BOOLEAN]
  /\ \A i \in 1..NumEntries : <<ns_csv[i].method, ns_isTable[i]>> \in EntryKinds
  /\ ns_pc = "idle"
  /\ test = <<>>
  /\ ns_idx = 1
  /\ log_entry = Unbound
  /\ ns_exc = "none"
  /\ item_id = None
  /\ csv_log = <<>>
  /\ \E layers \in [1..NumSheetRows -> SheetLayers] :
       steward = <<HeaderRow>> \o [i \in 1..NumSheetRows |-> SheetRow(layers[i])]
  /\ agol_sheet = <<>>
  /\ ns_cloud = <<>>
  /\ updated_rows = <<>>
  /\ ns_runs = 0

\* NightStocker.py not started
IdleNS ==
  /\ ns_csv = <<>>
  /\ ns_isTable = <<>>
  /\ ns_pc = "idle"
  /\ test = <<>>
  /\ ns_idx = 1
  /\ log_entry = Unbound
  /\ ns_exc = "none"
  /\ item_id = None
  /\ csv_log = <<>>
  /\ steward = <<>>
  /\ agol_sheet = <<>>
  /\ ns_cloud = <<>>
  /\ updated_rows = <<>>
  /\ ns_runs = 0

NextNS ==
  \/ NSStart \/ NSLoopEnd \/ NSDescribeFail \/ NSTable \/ NSBeginLayer
  \/ NSStage \/ NSStageFail
  \/ NSGetInfo \/ NSGetInfoFail
  \/ NSUpload \/ NSUploadFail
  \/ NSLogGsheets \/ NSLogGsheetsFail
  \/ NSFinally \/ NSFinallyIOError \/ NSFinallyUnbound


(* ---------------------------------------------------------------------- *)
(* log_gsheets called on its own, on sheets and arguments drawn from small *)
(* sets                                                                    *)
(* ---------------------------------------------------------------------- *)

\* the stewardship sheet when update_values raises at matching row k: the
\* matching rows before it are rewritten already
StewardshipUpTo(rows, a, k) ==
  [i \in DOMAIN rows |->
     IF i \in Matching(rows, a) /\ i < k THEN RewriteRow(rows[i], a) ELSE rows[i]]

\* log_gsheets(action_info, ...) returns updated_row
LogGsheets ==
  /\ lg_calls < MaxCalls
  /\ \E fc \in 1..NumEntries, method \in {"shelved", "static"} :
       action_info' = FullEntry([fc |-> fc, method |-> method], ItemIdOf(lg_calls + 1))
  /\ steward' = StewardshipAfter(steward, action_info')
  /\ agol_sheet' = Append(agol_sheet, AgolRow(action_info'))
  /\ updated_row' = UpdatedRow(steward, action_info')
  /\ lg_calls' = lg_calls + 1
  /\ UNCHANGED <<otpVars, utVars, slVars, fdVars, ns_csv, ns_isTable, ns_pc, test, ns_idx,
                 log_entry, ns_exc, item_id, csv_log, ns_cloud, updated_rows, ns_runs>>

\* log_gsheets raises: in authorize or open_by_key, in update_values at some
\* row, or in one of the two insert_rows
LogGsheetsRaise ==
  /\ lg_calls < MaxCalls
  /\ \E fc \in 1..NumEntries, method \in {"shelved", "static"} :
       action_info' = FullEntry([fc |-> fc, method |-> method], ItemIdOf(lg_calls + 1))
  /\ \/ \E k \in DOMAIN steward : steward' = StewardshipUpTo(steward, action_info', k)
     \/ /\ Matching(steward, action_info') # {}
        /\ steward' = StewardshipAfter(steward, action_info')
  /\ updated_row' = "raised"
  /\ lg_calls' = lg_calls + 1
  /\ UNCHANGED <<otpVars, utVars, slVars, fdVars, ns_csv, ns_isTable, ns_pc, test, ns_idx,
                 log_entry, ns_exc, item_id, csv_log, agol_sheet, ns_cloud, updated_rows,
                 ns_runs>>

InitLG ==
  /\ action_info = <<>>
  /\ updated_row = None
  /\ lg_calls = 0

NextLG == LogGsheets \/ LogGsheetsRaise


(* ---------------------------------------------------------------------- *)
(* UpdateTitles.py                                                         *)
(* ---------------------------------------------------------------------- *)

\* AGOL_PUBLISHED_NAME IS NULL
NullName == "<NULL>"

\* the names and titles of the model
Names == {"Utah Roads", "Utah Trails"}

\* row r has its own cloud item, with id r
TitleRows == 1..NumTitleRows

\* the query: AGOL_ITEM_ID IS NOT NULL AND AGOL_ITEM_ID <> 'EXTERNAL' AND
\* AGOL_PUBLISHED_NAME IS NOT NULL
Selected(rows) ==
  {r \in TitleRows : rows[r].id # NULL /\ rows[r].id # EXTERNAL /\ rows[r].name # NullName}

\* the script starts: errors = [], the SearchCursor
UTStart ==
  /\ ut_pc \in {"idle", "done"}
  /\ ut_runs < MaxTitleRuns
  /\ ut_runs' = ut_runs + 1
  /\ ut_prev_clean' = (ut_pc = "done" /\ errors = <<>>)
  /\ ut_cursor' = OrderBy(Selected(ut_rows))
  /\ errors' = <<>>
  /\ ut_updates' = 0
  /\ ut_pc' = "loop"
  /\ UNCHANGED <<notUT, ut_rows, ut_title>>

\* item.title == name: nothing to do
UTSame ==
  /\ ut_pc = "loop"
  /\ ut_cursor # <<>>
  /\ ut_title[Head(ut_cursor)] = ut_rows[Head(ut_cursor)].name
  /\ ut_cursor' = Tail(ut_cursor)
  /\ UNCHANGED <<notUT, ut_rows, ut_title, ut_pc, errors, ut_updates, ut_prev_clean,
                 ut_runs>>

\* item.title != name: item.update({'title': name}) returns true
UTUpdate ==
  /\ ut_pc = "loop"
  /\ ut_cursor # <<>>
  /\ ut_title[Head(ut_cursor)] # ut_rows[Head(ut_cursor)].name
  /\ ut_title' = [ut_title EXCEPT ![Head(ut_cursor)] = ut_rows[Head(ut_cursor)].name]
  /\ ut_updates' = ut_updates + 1
  /\ ut_cursor' = Tail(ut_cursor)
  /\ UNCHANGED <<notUT, ut_rows, ut_pc, errors, ut_prev_clean, ut_runs>>

\* item.title != name: item.update returns false, and nothing reads the result
UTUpdateFalse ==
  /\ ut_pc = "loop"
  /\ ut_cursor # <<>>
  /\ ut_title[Head(ut_cursor)] # ut_rows[Head(ut_cursor)].name
  /\ ut_updates' = ut_updates + 1
  /\ ut_cursor' = Tail(ut_cursor)
  /\ UNCHANGED <<notUT, ut_rows, ut_title, ut_pc, errors, ut_prev_clean, ut_runs>>

\* Item(gis, item_id) or item.update raises: the message goes to errors
UTError ==
  /\ ut_pc = "loop"
  /\ ut_cursor # <<>>
  /\ errors' = Append(errors, Head(ut_cursor))
  /\ \/ ut_updates' = ut_updates
     \/ /\ ut_title[Head(ut_cursor)] # ut_rows[Head(ut_cursor)].name
        /\ ut_updates' = ut_updates + 1
  /\ ut_cursor' = Tail(ut_cursor)
  /\ UNCHANGED <<notUT, ut_rows, ut_title, ut_pc, ut_prev_clean, ut_runs>>

\* the cursor is exhausted
UTEnd ==
  /\ ut_pc = "loop"
  /\ ut_cursor = <<>>
  /\ ut_pc' = "done"
  /\ UNCHANGED <<notUT, ut_rows, ut_title, ut_cursor, errors, ut_updates,
                 ut_prev_clean, ut_runs>>

InitUT ==
  /\ ut_rows \in [TitleRows -> [id : {NULL, EXTERNAL} \cup TitleRows, name : Names \cup {NullName}]]
  /\ \A r \in TitleRows : ut_rows[r].id \in {NULL, EXTERNAL, r}
  /\ ut_title \in [TitleRows -> Names]
  /\ ut_pc = "idle"
  /\ ut_cursor = <<>>
  /\ errors = <<>>
  /\ ut_updates = 0
  /\ ut_prev_clean = FALSE
  /\ ut_runs = 0

\* UpdateTitles.py not started
IdleUT ==
  /\ ut_rows = <<>>
  /\ ut_title = <<>>
  /\ ut_pc = "idle"
  /\ ut_cursor = <<>>
  /\ errors = <<>>
  /\ ut_updates = 0
  /\ ut_prev_clean = FALSE
  /\ ut_runs = 0

NextUT == UTStart \/ UTSame \/ UTUpdate \/ UTUpdateFalse \/ UTError \/ UTEnd


(* ---------------------------------------------------------------------- *)
(* stewardship-endpoint-linker/main.py                                     *)
(* ---------------------------------------------------------------------- *)

\* Strings are sequences of characters here, so that lower(), replace() and
\* kebab_case() are computed and not assumed.

UpperCase == <<"A", "B", "C", "D", "E", "G", "I", "L", "N", "R", "S", "T", "X">>

LowerCase == <<"a", "b", "c", "d", "e", "g", "i", "l", "n", "r", "s", "t", "x">>

Digits == {"0", "1", "2", "9"}

\* str.lower() on one character
LowerChar(c) ==
  IF \E k \in DOMAIN UpperCase : UpperCase[k] = c
  THEN LowerCase[CHOOSE k \in DOMAIN UpperCase : UpperCase[k] = c]
  ELSE c

\* str.lower()
Lower(str) == [k \in DOMAIN str |-> LowerChar(str[k])]

\* str.replace(old, ''): every occurrence of old removed, left to right
RECURSIVE Remove(_, _)
Remove(str, old) ==
  IF str = <<>> THEN <<>>
  ELSE IF Len(str) >= Len(old) /\ SubSeq(str, 1, Len(old)) = old
       THEN Remove(SubSeq(str, Len(old) + 1, Len(str)), old)
       ELSE <<Head(str)>> \o Remove(Tail(str), old)

CharClass(c) ==
  IF \E k \in DOMAIN LowerCase : LowerCase[k] = c THEN "letter"
  ELSE IF c \in Digits THEN "digit"
  ELSE "separator"

\* pydash kebab_case of a lowercased string: the words are the runs of letters
\* and the runs of digits, joined with '-'
RECURSIVE KebabFrom(_, _, _, _)
KebabFrom(str, k, out, prev) ==
  IF k > Len(str) THEN out
  ELSE IF CharClass(str[k]) = "separator" THEN KebabFrom(str, k + 1, out, "separator")
  ELSE IF out # <<>> /\ prev # CharClass(str[k])
       THEN KebabFrom(str, k + 1, out \o <<"-", str[k]>>, CharClass(str[k]))
       ELSE KebabFrom(str, k + 1, Append(out, str[k]), CharClass(str[k]))

kebab_case(str) == KebabFrom(str, 1, <<>>, "separator")

\* table_name.lower().replace('sgid.', '')
MapKey(table_name) == Remove(Lower(table_name), <<"s", "g", "i", "d", ".">>)

\* f'https://opendata.gis.utah.gov/datasets/{kebab_case(proper_name.lower())}'
OpenDataUrl(proper_name) ==
  <<"https://opendata.gis.utah.gov/datasets/">> \o kebab_case(Lower(proper_name))

\* agol_id and agol_id.lower() == 'external'
IsExternal(agol_id) ==
  agol_id # <<>> /\ Lower(agol_id) = <<"e", "x", "t", "e", "r", "n", "a", "l">>

\* the TABLENAME of row r of the model
LinkTableNames ==
  <<  <<"S", "G", "I", "D", ".", "A", ".", "B">>,
      <<"s", "g", "i", "d", ".", "A", ".", "C">>,
      <<"S", "G", "I", "D", ".", "B", ".", "D">>  >>

\* AGOL_ITEM_ID: NULL (None), two spellings of EXTERNAL, an item id
LinkIds == { <<>>, <<"E", "X", "T", "E", "R", "N", "A", "L">>,
             <<"E", "x", "t", "e", "r", "n", "a", "l">>, <<"a", "1", "b", "2">> }

\* AGOL_PUBLISHED_NAME
LinkNames == { <<"U", "t", "a", "h", " ", "R", "o", "a", "d", "s">>,
               <<"T", "r", "a", "i", "l", "s", "_", "2", "0", "1", "9">> }

\* the 'SGID Data Layer' cells of the model; <<>> is an empty cell
LinkLayers == { <<>>, <<"A", ".", "B">>, <<"a", ".", "c">>, <<"X", ".", "Y">> }

\* the 'Endpoint' cells before the run
OldEndpoints == { <<>>, <<"o", "l", "d">> }

\* the script starts: table_map = {}, cursor.execute
SLStart ==
  /\ sl_pc = "idle"
  /\ table_map' = <<>>
  /\ sl_cursor' = sl_tracking
  /\ sl_pc' = "populate"
  /\ UNCHANGED <<notSL, sl_tracking, sl_sheet, sl_sheet0, data_frame, sl_index, sl_view>>

\* an external row: continue
SLSkipExternal ==
  /\ sl_pc = "populate"
  /\ sl_cursor # <<>>
  /\ IsExternal(Head(sl_cursor).agol_id)
  /\ sl_cursor' = Tail(sl_cursor)
  /\ UNCHANGED <<notSL, sl_tracking, sl_sheet, sl_sheet0, sl_pc, table_map, data_frame,
                 sl_index, sl_view>>

\* mutant: the key is the lowercased TABLENAME, 'sgid.' left in
MapPutWholeName(map, row) ==
  [key \in DOMAIN map \cup {Lower(row.table_name)} |->
     IF key = Lower(row.table_name) THEN OpenDataUrl(row.proper_name) ELSE map[key]]

\* table_map[key] = url
MapPut(map, row) ==
  [key \in DOMAIN map \cup {MapKey(row.table_name)} |->
     IF key = MapKey(row.table_name) THEN OpenDataUrl(row.proper_name) ELSE map[key]]

\* any other row goes into table_map
SLMapRow ==
  /\ sl_pc = "populate"
  /\ sl_cursor # <<>>
  /\ ~IsExternal(Head(sl_cursor).agol_id)
  /\ table_map' = MapPut(table_map, Head(sl_cursor))
  /\ sl_cursor' = Tail(sl_cursor)
  /\ UNCHANGED <<notSL, sl_tracking, sl_sheet, sl_sheet0, sl_pc, data_frame, sl_index,
                 sl_view>>

\* worksheet.get_as_df(): the frame holds the cells of the sheet; whether the
\* rows iterrows yields are views of the frame or copies depends on the dtypes
\* of the frame and on the pandas build
SLGetFrame ==
  /\ sl_pc = "populate"
  /\ sl_cursor = <<>>
  /\ data_frame' = sl_sheet
  /\ sl_view' \in BOOLEAN
  /\ sl_index' = 1
  /\ sl_pc' = "iterrows"
  /\ UNCHANGED <<notSL, sl_tracking, sl_sheet, sl_sheet0, sl_cursor, table_map>>

\* one row of iterrows: row['Endpoint'] = table_map[table_name.lower()]
SLIterRow ==
  /\ sl_pc = "iterrows"
  /\ sl_index <= Len(data_frame)
  /\ data_frame' =
       IF /\ data_frame[sl_index].layer # <<>>
          /\ Lower(data_frame[sl_index].layer) \in DOMAIN table_map
          /\ sl_view
       THEN [data_frame EXCEPT ![sl_index].endpoint = table_map[Lower(data_frame[sl_index].layer)]]
       ELSE data_frame
  /\ sl_index' = sl_index + 1
  /\ UNCHANGED <<notSL, sl_tracking, sl_sheet, sl_sheet0, sl_pc, sl_cursor, table_map,
                 sl_view>>

\* worksheet.set_dataframe(data_frame[['Endpoint']], (1, 21)): the Endpoint
\* column of the frame is written over column 21 of the sheet
SLSetDataframe ==
  /\ sl_pc = "iterrows"
  /\ sl_index > Len(data_frame)
  /\ sl_sheet' = [k \in DOMAIN sl_sheet |->
                    [sl_sheet[k] EXCEPT !.endpoint = data_frame[k].endpoint]]
  /\ sl_pc' = "finished"
  /\ UNCHANGED <<notSL, sl_tracking, sl_sheet0, sl_cursor, table_map, data_frame,
                 sl_index, sl_view>>

InitSL ==
  /\ sl_tracking \in [1..NumLinkRows ->
                        [table_name : Range(LinkTableNames), agol_id : LinkIds,
                         proper_name : LinkNames]]
  /\ \A r \in 1..NumLinkRows : sl_tracking[r].table_name = LinkTableNames[r]
  /\ sl_sheet \in [1..NumLinkSheetRows ->
                     [layer : LinkLayers, endpoint : OldEndpoints, notes : {<<"n">>}]]
  /\ sl_sheet0 = sl_sheet
  /\ sl_pc = "idle"
  /\ sl_cursor = <<>>
  /\ table_map = <<>>
  /\ data_frame = <<>>
  /\ sl_index = 1
  /\ sl_view = FALSE

\* the endpoint linker not started
IdleSL ==
  /\ sl_tracking = <<>>
  /\ sl_sheet = <<>>
  /\ sl_sheet0 = <<>>
  /\ sl_pc = "idle"
  /\ sl_cursor = <<>>
  /\ table_map = <<>>
  /\ data_frame = <<>>
  /\ sl_index = 1
  /\ sl_view = FALSE

NextSL == SLStart \/ SLSkipExternal \/ SLMapRow \/ SLGetFrame \/ SLIterRow \/ SLSetDataframe

(* ---------------------------------------------------------------------- *)
(* Folders.py: update_folders_for_meta_table_items                         *)
(* ---------------------------------------------------------------------- *)

\* str.upper() on one character
UpperChar(c) ==
  IF \E k \in DOMAIN LowerCase : LowerCase[k] = c
  THEN UpperCase[CHOOSE k \in DOMAIN LowerCase : LowerCase[k] = c]
  ELSE c

\* str.split(sep) for a separator of one character
RECURSIVE SplitFrom(_, _, _, _)
SplitFrom(str, sep, piece, out) ==
  IF str = <<>> THEN Append(out, piece)
  ELSE IF Head(str) = sep THEN SplitFrom(Tail(str), sep, <<>>, Append(out, piece))
  ELSE SplitFrom(Tail(str), sep, Append(piece, Head(str)), out)

Split(str, sep) == SplitFrom(str, sep, <<>>, <<>>)

\* str.capitalize(): the first character upper case, the others lower case
Capitalize(word) ==
  IF word = <<>> THEN <<>> ELSE <<UpperChar(Head(word))>> \o Lower(Tail(word))

\* ' '.join(words)
RECURSIVE Join(_)
Join(words) ==
  IF Len(words) = 1 THEN Head(words) ELSE Head(words) \o <<" ">> \o Join(Tail(words))

\* pydash.title_case: every word between blanks capitalized
title_case(text) ==
  LET words == Split(text, " ") IN Join([k \in DOMAIN words |-> Capitalize(words[k])])

\* pydash.title_case(name.split('.')[1])
get_folder_from_fc(name) == title_case(Split(name, ".")[2])

\* the TABLENAME of row r of the model
FolderTableNames ==
  <<  <<"S", "G", "I", "D", ".", "C", "A", "D", "A", "S", "T", "R", "E", ".", "A">>,
      <<"S", "G", "I", "D", ".", "I", "n", "d", "i", "c", "e", "s", ".", "B">>,
      <<"S", "G", "I", "D", ".", "C", "A", "D", "A", "S", "T", "R", "E", ".", "C">>,
      <<"S", "G", "I", "D", ".", "I", "n", "d", "i", "c", "e", "s", ".", "D">>  >>

\* the folder titles a user may have
FolderTitles == { <<"C", "a", "d", "a", "s", "t", "r", "e">>,
                  <<"I", "n", "d", "i", "c", "e", "s">> }

\* the root folder of the user, which user.folders does not list
Root == <<>>

FolderItems == 1..NumFolderItems

\* the query AGOL_ITEM_ID <> 'EXTERNAL': a NULL id does not satisfy it
FolderQuery(rows) == {r \in DOMAIN rows : rows[r].id # NULL /\ rows[r].id # EXTERNAL}

\* get_folders_to_items: folder title -> ids of the items in the folder
FoldersToItems(titles, where) ==
  [f \in titles |-> {i \in FolderItems : where[i] = f}]

\* folder = get_folder_from_fc(tablename) of the current row
folder == get_folder_from_fc(fd_rows[fd_row].tablename)

\* an exception nothing catches: the function ends
FDAbort ==
  /\ fd_pc' = "aborted"
  /\ UNCHANGED <<notFD, fd_rows, fd_user_folders, fd_in, fd_related, fd_cursor, fd_row,
                 fd_queue, folders, fd_moves, fd_reports>>

\* update_folders_for_meta_table_items: the snapshot and the SearchCursor
FDStart ==
  /\ fd_pc = "idle"
  /\ folders' = FoldersToItems(fd_user_folders, fd_in)
  /\ fd_cursor' = OrderBy(FolderQuery(fd_rows))
  /\ fd_pc' = "loop"
  /\ UNCHANGED <<notFD, fd_rows, fd_user_folders, fd_in, fd_related, fd_row, fd_queue,
                 fd_moves, fd_reports>>

\* get_folders_to_items or the SearchCursor raises
FDStartFail ==
  /\ fd_pc = "idle"
  /\ FDAbort

\* item = arcgis.gis.Item(gis, agol_id)
FDBeginRow ==
  /\ fd_pc = "loop"
  /\ fd_cursor # <<>>
  /\ fd_row' = Head(fd_cursor)
  /\ fd_cursor' = Tail(fd_cursor)
  /\ fd_queue' = <<fd_rows[Head(fd_cursor)].id>>
  /\ fd_pc' = "item"
  /\ UNCHANGED <<notFD, fd_rows, fd_user_folders, fd_in, fd_related, folders, fd_moves,
                 fd_reports>>

\* arcgis.gis.Item raises
FDItemFail ==
  /\ fd_pc = "loop"
  /\ fd_cursor # <<>>
  /\ FDAbort

\* move_item_if_needed is about to be called on an item
FDCalling == fd_pc \in {"item", "related"} /\ fd_queue # <<>>

\* folders[folder] with a folder the snapshot does not have: KeyError, raised
\* outside the try of move_item_if_needed
FDKeyError ==
  /\ FDCalling
  /\ folder \notin DOMAIN folders
  /\ FDAbort

\* item.id in folders[folder]: no move
FDInPlace ==
  /\ FDCalling
  /\ folder \in DOMAIN folders
  /\ Head(fd_queue) \in folders[folder]
  /\ fd_queue' = Tail(fd_queue)
  /\ UNCHANGED <<notFD, fd_rows, fd_user_folders, fd_in, fd_related, fd_pc, fd_cursor,
                 fd_row, folders, fd_moves, fd_reports>>

\* item.move(folder) is called: the part all outcomes share
FDMoveCall ==
  /\ FDCalling
  /\ folder \in DOMAIN folders
  /\ Head(fd_queue) \notin folders[folder]
  /\ fd_moves' = Append(fd_moves, <<Head(fd_queue), folder>>)
  /\ fd_queue' = Tail(fd_queue)
  /\ UNCHANGED <<notFD, fd_rows, fd_user_folders, fd_related, fd_pc, fd_cursor, fd_row,
                 folders>>

\* item.move(folder) succeeds
FDMove ==
  /\ FDMoveCall
  /\ fd_in' = [fd_in EXCEPT ![Head(fd_queue)] = folder]
  /\ UNCHANGED fd_reports

\* result['success'] == False: the error message is printed
FDMoveFalse ==
  /\ FDMoveCall
  /\ fd_reports' = Append(fd_reports, <<Head(fd_queue), "error moving">>)
  /\ UNCHANGED fd_in

\* item.move raises: the error message and the exception are printed
FDMoveRaise ==
  /\ FDMoveCall
  /\ fd_reports' = Append(fd_reports, <<Head(fd_queue), "error moving", "exception">>)
  /\ UNCHANGED fd_in

\* for related_item in item.related_items('Service2Data')
FDRelated ==
  /\ fd_pc = "item"
  /\ fd_queue = <<>>
  /\ fd_queue' = OrderBy(fd_related[fd_rows[fd_row].id])
  /\ fd_pc' = "related"
  /\ UNCHANGED <<notFD, fd_rows, fd_user_folders, fd_in, fd_related, fd_cursor, fd_row,
                 folders, fd_moves, fd_reports>>

\* item.related_items raises
FDRelatedFail ==
  /\ fd_pc = "item"
  /\ fd_queue = <<>>
  /\ FDAbort

\* the related items are done: the next row
FDNextRow ==
  /\ fd_pc = "related"
  /\ fd_queue = <<>>
  /\ fd_row' = 0
  /\ fd_pc' = "loop"
  /\ UNCHANGED <<notFD, fd_rows, fd_user_folders, fd_in, fd_related, fd_cursor, fd_queue,
                 folders, fd_moves, fd_reports>>

\* the cursor is exhausted
FDEnd ==
  /\ fd_pc = "loop"
  /\ fd_cursor = <<>>
  /\ fd_pc' = "done"
  /\ UNCHANGED <<notFD, fd_rows, fd_user_folders, fd_in, fd_related, fd_cursor, fd_row,
                 fd_queue, folders, fd_moves, fd_reports>>

InitFD ==
  /\ fd_rows \in [1..NumFolderRows ->
                    [tablename : Range(FolderTableNames),
                     id : {NULL, EXTERNAL} \cup FolderItems]]
  /\ \A r \in 1..NumFolderRows : fd_rows[r].tablename = FolderTableNames[r]
  /\ fd_user_folders \in SUBSET FolderTitles
  /\ fd_in \in [FolderItems -> fd_user_folders \cup {Root}]
  /\ fd_related \in [FolderItems -> SUBSET FolderItems]
  /\ \A i \in FolderItems : i \notin fd_related[i] /\ Cardinality(fd_related[i]) <= 1
  /\ fd_pc = "idle"
  /\ fd_cursor = <<>>
  /\ fd_row = 0
  /\ fd_queue = <<>>
  /\ folders = <<>>
  /\ fd_moves = <<>>
  /\ fd_reports = <<>>

\* Folders.py not started
IdleFD ==
  /\ fd_rows = <<>>
  /\ fd_user_folders = {}
  /\ fd_in = <<>>
  /\ fd_related = <<>>
  /\ fd_pc = "idle"
  /\ fd_cursor = <<>>
  /\ fd_row = 0
  /\ fd_queue = <<>>
  /\ folders = <<>>
  /\ fd_moves = <<>>
  /\ fd_reports = <<>>

NextFD ==
  \/ FDStart \/ FDStartFail \/ FDBeginRow \/ FDItemFail
  \/ FDKeyError \/ FDInPlace \/ FDMove \/ FDMoveFalse \/ FDMoveRaise
  \/ FDRelated \/ FDRelatedFail \/ FDNextRow \/ FDEnd

(* ---------------------------------------------------------------------- *)
(* The specifications, one per script                                      *)
(* ---------------------------------------------------------------------- *)

InitSpecOTP ==
  /\ InitOTP
  /\ IdleNS
  /\ InitLG
  /\ IdleUT
  /\ IdleSL
  /\ IdleFD

SpecOTP == InitSpecOTP /\ [][NextOTP]_vars

InitSpecNS ==
  /\ InitNS
  /\ IdleOTP
  /\ InitLG
  /\ IdleUT
  /\ IdleSL
  /\ IdleFD

SpecNS == InitSpecNS /\ [][NextNS]_vars

\* log_gsheets on the sheets NightStocker starts from; the main loop of
\* NightStocker.py is not running
InitSpecLG ==
  /\ \E layers \in [1..NumSheetRows -> SheetLayers] :
       steward = <<HeaderRow>> \o [i \in 1..NumSheetRows |-> SheetRow(layers[i])]
  /\ agol_sheet = <<>>
  /\ ns_csv = <<>>
  /\ ns_isTable = <<>>
  /\ ns_pc = "idle"
  /\ test = <<>>
  /\ ns_idx = 1
  /\ log_entry = Unbound
  /\ ns_exc = "none"
  /\ item_id = None
  /\ csv_log = <<>>
  /\ ns_cloud = <<>>
  /\ updated_rows = <<>>
  /\ ns_runs = 0
  /\ IdleOTP
  /\ InitLG
  /\ IdleUT
  /\ IdleSL
  /\ IdleFD

SpecLG == InitSpecLG /\ [][NextLG]_vars

InitSpecUT ==
  /\ InitUT
  /\ IdleOTP
  /\ IdleNS
  /\ InitLG
  /\ IdleSL
  /\ IdleFD

SpecUT == InitSpecUT /\ [][NextUT]_vars

InitSpecSL ==
  /\ InitSL
  /\ IdleOTP
  /\ IdleNS
  /\ InitLG
  /\ IdleUT
  /\ IdleFD

SpecSL == InitSpecSL /\ [][NextSL]_vars

InitSpecFD ==
  /\ InitFD
  /\ IdleOTP
  /\ IdleNS
  /\ InitLG
  /\ IdleUT
  /\ IdleSL

SpecFD == InitSpecFD /\ [][NextFD]_vars

(* ---------------------------------------------------------------------- *)
(* OneTimePublish.py: the claims                                           *)
(* ---------------------------------------------------------------------- *)

\* the steps of the pipeline of one item, between BeginItem and the write-back
PipelinePcs == {"import_data", "add_data_to_map", "stage", "upload", "publish",
                "update", "group", "share", "thumbnail", "retry_thumbnail",
                "capabilities", "write_back"}

\* C1: over any sequence of runs, aborted ones included, at most one hosted
\* feature layer is ever published for any one row of SGID.META.AGOLItems.
C1_AtMostOneLayerPerRow ==
  \A t \in Tables : Cardinality(LayersOf(t)) <= 1

\* C2, the state part: every id the script has written is the id of a feature
\* layer published for that row's TABLENAME; a row not written keeps NULL or
\* EXTERNAL.
C2_WrittenIdsArePublished ==
  /\ \A t \in written : tracking[t] \in LayersOf(t)
  /\ \A t \in Tables \ written : tracking[t] \in {NULL, EXTERNAL}

\* C2, the step part: a step that fails changes no AGOL_ITEM_ID and leaves the
\* current row NULL; a step that changes the table changes the current row only.
C2_FailureLeavesTable ==
  /\ pc' = "aborted" /\ pc # "aborted" => tracking' = tracking /\ tracking[cur] = NULL
  /\ \A t \in Tables : tracking'[t] # tracking[t] => t = cur /\ pc = "write_back"

\* C2: OneTimePublish does not corrupt the tracking store on partial failure:
\* each AGOL_ITEM_ID written is the id of the feature layer published for that
\* row; when a step of an item fails the row stays NULL and no other row changes.
C2_TrackingNotCorrupted ==
  []C2_WrittenIdsArePublished /\ [][C2_FailureLeavesTable]_vars

\* C2 witness: a run aborted after it published a layer for the current row,
\* with the id of another row already written.
C2_Witness ==
  /\ pc = "aborted"
  /\ written # {}
  /\ cur \notin written
  /\ LayersOf(cur) # {}

\* C3, the state part: the rows still to come and the row in the pipeline all
\* have AGOL_ITEM_ID NULL, so a row with an id is in no pipeline step.
C3_OnlyNullRowsProcessed ==
  /\ pc \in PipelinePcs \cup {"cursor"} => \A i \in DOMAIN worklist : tracking[worklist[i]] = NULL
  /\ pc \in PipelinePcs => tracking[cur] = NULL

\* C3, the step part: the worklist a run starts with holds exactly the NULL
\* rows, each once, in ascending TABLENAME order.
C3_WorklistIsNullRows ==
  pc # "cursor" /\ pc' = "cursor" /\ runs' # runs =>
    /\ \A t \in Tables : Count(worklist', t) = (IF tracking[t] = NULL THEN 1 ELSE 0)
    /\ \A i, j \in DOMAIN worklist' : i < j => worklist'[i] < worklist'[j]

\* C3: OneTimePublish is resumable: the worklist of a run is exactly the rows
\* whose AGOL_ITEM_ID is NULL, ordered by TABLENAME, and a row whose id was
\* written back is never projected, staged, uploaded or published again.
C3_Resumable ==
  []C3_OnlyNullRowsProcessed /\ [][C3_WorklistIsNullRows]_vars

\* C3 witness: a second run is publishing a row that is still NULL although
\* the first run wrote back the id of another row.
C3_Witness ==
  /\ runs = 2
  /\ total_publishes = 0
  /\ written # {}
  /\ pc = "publish"
  /\ cur \notin written

\* C4: the write-back is the last pipeline step of an item: AGOL_ITEM_ID changes
\* only when projection, staging, upload, publish, the item update, sharing,
\* the thumbnail attempts and the capabilities update of that item are done,
\* and the id written is the id of the published feature layer.
C4_WriteBackIsLast ==
  [][tracking' # tracking =>
       /\ steps = <<"import_data", "add_data_to_map", "stage", "upload", "publish",
                    "update", "group", "share", "thumbnail", "capabilities">>
       /\ cur \in fgdb
       /\ item \in LayersOf(cur)
       /\ cloud[item].updated
       /\ cloud[item].shared
       /\ Len(cloud[item].thumbs) >= 1
       /\ cloud[item].capabilities = "Query,Extract"
       /\ cloud[source_item].kind = "sd"
       /\ tracking' = [tracking EXCEPT ![cur] = item]
       /\ pc' = "cursor"
  ]_vars

\* C4 witness: the id of an item has just been written back.
C4_Witness ==
  /\ pc = "cursor"
  /\ cur \in written
  /\ tracking[cur] = item
  /\ steps[Len(steps)] = "write_back"

\* the feature layers published by the current run
ThisRunItems == {published_items[i][2] : i \in DOMAIN published_items}

\* C7, the state part: create_thumbnail is called at most twice per item, the
\* second time only after the first call raised; an item is in
\* missing_thumbnails once when both calls raised and not at all otherwise;
\* the capabilities update and the write-back can follow.
C7_ThumbnailCalls ==
  \A i \in DOMAIN cloud :
    /\ Len(cloud[i].thumbs) <= 2
    /\ Len(cloud[i].thumbs) = 2 => cloud[i].thumbs[1] = "raised"
    /\ Count(missing_thumbnails, i) =
         (IF i \in ThisRunItems /\ cloud[i].thumbs = <<"raised", "raised">> THEN 1 ELSE 0)
    /\ pc = "capabilities" => ENABLED Capabilities
    /\ pc = "write_back" => ENABLED WriteBack

\* C7, the step part: after the second call raised the pipeline goes on to the
\* capabilities update.
C7_PipelineGoesOn ==
  pc = "retry_thumbnail" /\ pc' # pc => pc' = "capabilities"

\* C7: thumbnail creation is retried once; when both calls raise the item id is
\* appended to missing_thumbnails exactly once and the capabilities update and
\* the write-back still follow; when a call succeeds the id is not appended.
C7_ThumbnailRetriedOnce ==
  []C7_ThumbnailCalls /\ [][C7_PipelineGoesOn]_vars

\* C7 witness: an item whose two thumbnail calls raised has its capabilities
\* set and its id written back, and is listed in missing_thumbnails.
C7_Witness ==
  \E t \in written :
    /\ tracking[t] \in DOMAIN cloud
    /\ cloud[tracking[t]].thumbs = <<"raised", "raised">>
    /\ cloud[tracking[t]].capabilities = "Query,Extract"
    /\ Count(missing_thumbnails, tracking[t]) = 1

(* ---------------------------------------------------------------------- *)
(* NightStocker.py: the claims                                             *)
(* ---------------------------------------------------------------------- *)

\* C5: every layer is logged: the iteration of a worklist entry that reaches
\* the finally clause (a table, a published layer, a failure of staging,
\* get_info, upload or spreadsheet logging) appends exactly one row to the CSV
\* log, and the first field of the row is the title of that entry.  (A step on
\* which the log file cannot be opened is left out.)
C5_EveryLayerLogged ==
  [][ns_pc = "finally" /\ ns_pc' # "finally" /\ ~NSFinallyIOError =>
       \E row \in {log_entry, TableEntry(entry), ErrorEntry(entry), FullEntry(entry, item_id)} :
          /\ csv_log' = Append(csv_log, row)
          /\ row # <<>>
          /\ row[1] = EntryTitle(entry.fc)
  ]_vars

\* the feature layers NightStocker published for CSV row fc
NSLayersOf(fc) == {i \in DOMAIN ns_cloud : ns_cloud[i] = NSNewItem("fl", fc)}

\* C6: over two or more runs on the same worklist CSV every layer is uploaded
\* and published at most once and has at most one row in the AGOL items sheet.
C6_PublishedAtMostOnce ==
  \A fc \in 1..NumEntries :
    /\ Cardinality(NSLayersOf(fc)) <= 1
    /\ Cardinality({i \in DOMAIN agol_sheet : agol_sheet[i][1] = EntryTitle(fc)}) <= 1

\* C10: a call of log_gsheets that returns: when stewardship rows have column 2
\* equal to action_info[2], each of them is rewritten in place with source
\* 'AGRC AGOL' and endpoint action_info[6], no row is added, and the number of
\* one of them is returned; otherwise one new 25-column row with
\* action_info[2] and the endpoint is appended and None is returned.  Either
\* way one row [title, item id, item URL] is appended to the AGOL items sheet.
C10_LogGsheets ==
  [][lg_calls' # lg_calls /\ updated_row' # "raised" =>
       LET a == action_info'
           M == {i \in DOMAIN steward : steward[i][Col(2)] = a[Col(2)]}
       IN  /\ M # {} =>
                /\ Len(steward') = Len(steward)
                /\ \A i \in M : /\ steward'[i][Col(1)] = "AGRC AGOL"
                                /\ steward'[i][Col(20)] = a[Col(6)]
                                /\ steward'[i][Col(2)] = a[Col(2)]
                /\ \A i \in DOMAIN steward \ M : steward'[i] = steward[i]
                /\ updated_row' \in {ToString(i) : i \in M}
           /\ M = {} =>
                /\ Len(steward') = Len(steward) + 1
                /\ SubSeq(steward', 1, Len(steward)) = steward
                /\ Len(steward'[Len(steward')]) = 25
                /\ steward'[Len(steward')][Col(2)] = a[Col(2)]
                /\ steward'[Len(steward')][Col(20)] = a[Col(6)]
                /\ updated_row' = None
           /\ agol_sheet' = Append(agol_sheet, <<a[Col(0)], a[Col(7)], ItemUrl(a[Col(7)])>>)
  ]_vars

\* C10 witness: after two calls one row was appended to the stewardship sheet,
\* an earlier row was rewritten, and the AGOL items sheet has two rows.
C10_Witness ==
  /\ lg_calls = 2
  /\ Len(steward) = NumSheetRows + 2
  /\ \E i \in 2..(NumSheetRows + 1) : steward[i][Col(1)] = "AGRC AGOL"
  /\ Len(agol_sheet) = 2

(* ---------------------------------------------------------------------- *)
(* UpdateTitles.py: the claim                                              *)
(* ---------------------------------------------------------------------- *)

\* C8: after a run, every selected row for which no error was recorded has a
\* cloud item whose title equals AGOL_PUBLISHED_NAME, and a run that directly
\* follows a run without errors makes no item.update call.
C8_TitlesMatch ==
  ut_pc = "done" =>
    /\ \A r \in Selected(ut_rows) \ Range(errors) : ut_title[r] = ut_rows[r].name
    /\ ut_prev_clean => ut_updates = 0

(* ---------------------------------------------------------------------- *)
(* stewardship-endpoint-linker/main.py: the claim                          *)
(* ---------------------------------------------------------------------- *)

\* the tracking rows that are not external and whose TABLENAME, lowercased and
\* with 'sgid.' removed, is the lowercased 'SGID Data Layer' of a sheet row
LinkedRows(sheetRow) ==
  {r \in DOMAIN sl_tracking :
     /\ ~IsExternal(sl_tracking[r].agol_id)
     /\ Lower(sheetRow.layer) = MapKey(sl_tracking[r].table_name)}

\* C9: when the linker has finished, every sheet row that names the table of a
\* tracking row that is not external has the open data URL of that row's
\* AGOL_PUBLISHED_NAME as Endpoint, every other row has the Endpoint it had,
\* and no other column has changed.
C9_OnlyEndpointWritten ==
  sl_pc = "finished" =>
    \A k \in DOMAIN sl_sheet :
      /\ sl_sheet[k].layer = sl_sheet0[k].layer
      /\ sl_sheet[k].notes = sl_sheet0[k].notes
      /\ LinkedRows(sl_sheet0[k]) = {} => sl_sheet[k].endpoint = sl_sheet0[k].endpoint
      /\ LinkedRows(sl_sheet0[k]) # {} =>
           \E r \in LinkedRows(sl_sheet0[k]) :
              sl_sheet[k].endpoint = OpenDataUrl(sl_tracking[r].proper_name)

(* ---------------------------------------------------------------------- *)
(* Folders.py: the claim                                                   *)
(* ---------------------------------------------------------------------- *)

\* the item is in the start-of-run snapshot of the folder
InSnapshot(it, f) == f \in DOMAIN folders /\ it \in folders[f]


\* C11: in update_folders_for_meta_table_items, for every row whose
\* AGOL_ITEM_ID is not 'EXTERNAL', item.move(folder) is called on the item and
\* on each related item if and only if the item is not in the start-of-run
\* snapshot of the row's title-cased category folder; a failed move or a
\* folder missing from the snapshot is reported and the remaining rows are
\* still processed.
C11_MoveIfNeeded ==
  [][FDCalling =>
       LET it == Head(fd_queue) IN
       /\ fd_pc' # "aborted"
       /\ fd_queue' = Tail(fd_queue)
       /\ IF InSnapshot(it, folder)
          THEN fd_moves' = fd_moves /\ fd_reports' = fd_reports /\ fd_in' = fd_in
          ELSE /\ fd_moves' = Append(fd_moves, <<it, folder>>)
               /\ \/ fd_in' = [fd_in EXCEPT ![it] = folder] /\ fd_reports' = fd_reports
                  \/ /\ fd_in' = fd_in
                     /\ Len(fd_reports') = Len(fd_reports) + 1
                     /\ fd_reports'[Len(fd_reports')][1] = it]_vars

(* ---------------------------------------------------------------------- *)
(* OneTimePublish.py: the order of the steps                               *)
(* ---------------------------------------------------------------------- *)

\* the feature layers of the cloud
Layers == {i \in DOMAIN cloud : cloud[i].kind = "fl"}

\* C12 as stated: capabilities 'Query,Extract', metadata, tags and sharing are
\* set before the first thumbnail attempt, and thumbnail creation is the last
\* step before the write-back.
C12_CapabilitiesBeforeThumbnail ==
  /\ \A i \in Layers :
       cloud[i].thumbs # <<>> =>
         /\ cloud[i].updated
         /\ cloud[i].shared
         /\ cloud[i].capabilities = "Query,Extract"
  /\ pc = "write_back" => steps[Len(steps)] = "thumbnail"

\* C12 amended: metadata, tags and sharing are set before the first thumbnail
\* attempt; the capabilities are set to 'Query,Extract' only after thumbnail
\* creation (retry included) is over, and the capabilities update is the last
\* step before the write-back.
C12_ThumbnailBeforeCapabilities ==
  /\ \A i \in Layers :
       /\ cloud[i].thumbs # <<>> => cloud[i].updated /\ cloud[i].shared
       /\ cloud[i].capabilities = "Query,Extract" =>
            /\ cloud[i].thumbs # <<>>
            /\ ~(pc \in {"thumbnail", "retry_thumbnail"} /\ i = item)
  /\ pc \in {"thumbnail", "retry_thumbnail"} => cloud[item].capabilities = "default"
  /\ pc = "write_back" =>
       /\ Len(steps) >= 2
       /\ steps[Len(steps)] = "capabilities"
       /\ steps[Len(steps) - 1] = "thumbnail"

\* C12 witness: an item whose first thumbnail call raised and whose retry
\* returned has its capabilities set and waits for the write-back.
C12_Witness ==
  /\ pc = "write_back"
  /\ cloud[item].thumbs = <<"raised", "ok">>
  /\ cloud[item].capabilities = "Query,Extract"
  /\ cloud[item].shared

(* ---------------------------------------------------------------------- *)
(* NightStocker.py: a staging failure                                      *)
(* ---------------------------------------------------------------------- *)

\* C13: when create_service_definition fails with ExecuteError at any point
\* (projection, adding the data to the map, exporting the draft, StageService)
\* nothing is uploaded for the entry, the CSV log gets the row
\* [title, error message] for it, and the loop goes on to the next entry.
C13_StagingFailureLogged ==
  [][/\ ns_pc = "create_service_definition" /\ ns_pc' \notin {ns_pc, "get_info"} =>
          /\ ns_pc' = "finally"
          /\ ns_exc' = "none"
          /\ log_entry' = ErrorEntry(entry)
          /\ ns_cloud' = ns_cloud
     /\ ns_pc = "finally" /\ ns_exc = "none" /\ log_entry = ErrorEntry(entry)
          /\ ns_pc' # ns_pc /\ ~NSFinallyIOError =>
          /\ csv_log' = Append(csv_log, ErrorEntry(entry))
          /\ ns_cloud' = ns_cloud
          /\ ns_pc' = "loop"
          /\ ns_idx' = ns_idx + 1]_vars

(* ---------------------------------------------------------------------- *)
(* OneTimePublish.py: edits are saved with each successful publish         *)
(* ---------------------------------------------------------------------- *)

\* the items of this run whose pipeline ended with the write-back: the first
\* total_publishes entries of published_items
SavedItems == {k \in DOMAIN published_items : k <= total_publishes}

\* C14, the state part: the id of every item published successfully in this
\* run is stored in the tracking table, at every moment of the run and after
\* an abort; at most one item is between its publish and its write-back.
C14_SavedIdsStored ==
  /\ total_publishes <= Len(published_items)
  /\ Len(published_items) <= total_publishes + 1
  /\ \A k \in SavedItems : tracking[published_items[k][1]] = published_items[k][2]
  /\ pc \in {"cursor", "import_data", "add_data_to_map", "stage", "upload", "publish"} =>
       Len(published_items) = total_publishes

\* C14, the step part: a write-back is one step that stores the id and counts
\* the publish, and it comes before the next item's pipeline starts; a step
\* that aborts the run changes no stored id.
C14_CommitPerItem ==
  /\ total_publishes' # total_publishes /\ runs' = runs =>
       /\ pc = "write_back"
       /\ total_publishes' = total_publishes + 1
       /\ tracking'[cur] = item
       /\ pc' = "cursor"
  /\ pc' = "import_data" /\ pc # "import_data" =>
       \A k \in DOMAIN published_items :
         tracking[published_items[k][1]] = published_items[k][2]
  /\ pc' = "aborted" /\ pc # "aborted" => tracking' = tracking

\* C14: each item's AGOL_ITEM_ID is committed with its own write-back before
\* the next item's pipeline starts, so when a run aborts while processing an
\* item the ids of the items published earlier in that run remain stored.
C14_EditsSavedPerPublish ==
  []C14_SavedIdsStored /\ [][C14_CommitPerItem]_vars

\* C14 witness: a run that wrote back the id of its first item has aborted
\* after publishing the second, and the first id is in the table.
C14_Witness ==
  /\ pc = "aborted"
  /\ total_publishes = 1
  /\ Len(published_items) = 2
  /\ tracking[published_items[1][1]] = published_items[1][2]
  /\ tracking[published_items[2][1]] = NULL

====
